---- MODULE Spec2Model ----
(***************************************************************************)
(* Model of the MS43 EWS patcher core: the patch catalog (patches.rs), the *)
(* version detector (version.rs) and the patch engine and status           *)
(* evaluator (patcher.rs), and the window's state and button handlers      *)
(* that call them (gui/main_window.rs).                                    *)
(*                                                                         *)
(* A firmware image (Vec<u8>) is held sparsely: its length `len`, the      *)
(* bytes at the addresses of `mem`, and one byte value `fill` shared by    *)
(* every other address below `len`.  Byte strings (&str, Vec<u8>) are      *)
(* sequences of byte values.                                               *)
(***************************************************************************)
EXTENDS Integers, Sequences, FiniteSets, TLC

VARIABLES
    data,        \* the image buffer handed to the core
    patch_set,   \* the PatchSet the engine is called with (NoSet: none yet)
    map_order,   \* iteration order of PATCH_SETS_MAP (<<>>: not yet built)
    op,          \* the last call: its name, its result, the buffer before it,
                 \* and the name and outcome of the call before it
    app_state    \* the window's AppState

vars == <<data, patch_set, map_order, op, app_state>>

-----------------------------------------------------------------------------
(* Bounds of the checked inputs *)

\* Length of an untruncated input image (a 512 KiB MS43 flash dump).
FullLen == 524288

\* Number of bytes tracked on each side of a modification window.
GuardWidth == 1

\* Values a single corrupted byte of an input image may take.
ByteSamples == {0, 1, 255}

\* Values of the bytes of an input image outside the windows and the tag.
FillSamples == {0, 255}

\* Length of the longest buffer handed to the engine with a set outside the
\* catalog.
SmallLen == 14

-----------------------------------------------------------------------------
(* patches.rs *)

NoVariant == <<>>

Patch(name, offset, original, patched) ==
    [name |-> name, offset |-> offset, original |-> original, patched |-> patched]

PatchSet(version_string, hardware_variant, patches) ==
    [version_string |-> version_string,
     hardware_variant |-> hardware_variant,
     patches |-> patches]

\* ASCII codes of the version strings
ca430037 == <<99, 97, 52, 51, 48, 48, 51, 55>>
ca430056 == <<99, 97, 52, 51, 48, 48, 53, 54>>
ca430066 == <<99, 97, 52, 51, 48, 48, 54, 54>>
ca430069 == <<99, 97, 52, 51, 48, 48, 54, 57>>

\* Mutant of get_all_patch_sets: the 5WK90017 variant of ca430056 patches its
\* DTC byte one address further than the 5WK90015 variant.
get_all_patch_sets_DivergentVariant ==
    << PatchSet(ca430037, NoVariant,
         << Patch("Jump", \H54E8C, <<\HDA, \H0B, \H5A, \H1C>>, <<\HDA, \H0D, \H0C, \H35>>),
            Patch("Code", \H5350C, <<\H00, \H00, \HFF, \HFF, \HFF, \HFF, \HFF, \HFF>>,
                                   <<\HDA, \H0B, \HE6, \H39, \H6E, \H18, \HDB, \H00>>),
            Patch("DTC", \H7099B, <<\H02>>, <<\H00>>) >>),
       PatchSet(ca430056, <<"5WK90015">>,
         << Patch("Jump", \H57D76, <<\HDA, \H0B, \H40, \H20>>, <<\HDA, \H0D, \HB2, \H3B>>),
            Patch("Code", \H53BB2, <<\H00, \H00, \HFF, \HFF, \HFF, \HFF, \HFF, \HFF>>,
                                   <<\HDA, \H0B, \HB8, \H3F, \H9E, \H19, \HDB, \H00>>),
            Patch("DTC", \H70A14, <<\H02>>, <<\H00>>) >>),
       PatchSet(ca430056, <<"5WK90017">>,
         << Patch("Jump", \H57D76, <<\HDA, \H0B, \H40, \H20>>, <<\HDA, \H0D, \HB2, \H3B>>),
            Patch("Code", \H53BB2, <<\H00, \H00, \HFF, \HFF, \HFF, \HFF, \HFF, \HFF>>,
                                   <<\HDA, \H0B, \HB8, \H3F, \H9E, \H19, \HDB, \H00>>),
            Patch("DTC", \H70A15, <<\H02>>, <<\H00>>) >>),
       PatchSet(ca430066, NoVariant,
         << Patch("Jump", \H600D8, <<\HDA, \H0A, \H64, \HDD>>, <<\HDA, \H0D, \HF8, \H3B>>),
            Patch("Code", \H53BF8, <<\H00, \H00, \HFF, \HFF, \HFF, \HFF, \HFF, \HFF>>,
                                   <<\HDA, \H0A, \HDC, \HFC, \H0E, \H1A, \HDB, \H00>>),
            Patch("DTC", \H70A77, <<\H02>>, <<\H00>>) >>),
       PatchSet(ca430069, NoVariant,
         << Patch("Jump", \H600D8, <<\HDA, \H0A, \H6C, \HDD>>, <<\HDA, \H0D, \HF8, \H3B>>),
            Patch("Code", \H53BF8, <<\H00, \H00, \HFF, \HFF, \HFF, \HFF, \HFF, \HFF>>,
                                   <<\HDA, \H0A, \HE4, \HFC, \H0E, \H1A, \HDB, \H00>>),
            Patch("DTC", \H70A6E, <<\H02>>, <<\H00>>) >>) >>

get_all_patch_sets ==
    << PatchSet(ca430037, NoVariant,
         << Patch("Jump", \H54E8C, <<\HDA, \H0B, \H5A, \H1C>>, <<\HDA, \H0D, \H0C, \H35>>),
            Patch("Code", \H5350C, <<\H00, \H00, \HFF, \HFF, \HFF, \HFF, \HFF, \HFF>>,
                                   <<\HDA, \H0B, \HE6, \H39, \H6E, \H18, \HDB, \H00>>),
            Patch("DTC", \H7099B, <<\H02>>, <<\H00>>) >>),
       PatchSet(ca430056, <<"5WK90015">>,
         << Patch("Jump", \H57D76, <<\HDA, \H0B, \H40, \H20>>, <<\HDA, \H0D, \HB2, \H3B>>),
            Patch("Code", \H53BB2, <<\H00, \H00, \HFF, \HFF, \HFF, \HFF, \HFF, \HFF>>,
                                   <<\HDA, \H0B, \HB8, \H3F, \H9E, \H19, \HDB, \H00>>),
            Patch("DTC", \H70A14, <<\H02>>, <<\H00>>) >>),
       PatchSet(ca430056, <<"5WK90017">>,
         << Patch("Jump", \H57D76, <<\HDA, \H0B, \H40, \H20>>, <<\HDA, \H0D, \HB2, \H3B>>),
            Patch("Code", \H53BB2, <<\H00, \H00, \HFF, \HFF, \HFF, \HFF, \HFF, \HFF>>,
                                   <<\HDA, \H0B, \HB8, \H3F, \H9E, \H19, \HDB, \H00>>),
            Patch("DTC", \H70A14, <<\H02>>, <<\H00>>) >>),
       PatchSet(ca430066, NoVariant,
         << Patch("Jump", \H600D8, <<\HDA, \H0A, \H64, \HDD>>, <<\HDA, \H0D, \HF8, \H3B>>),
            Patch("Code", \H53BF8, <<\H00, \H00, \HFF, \HFF, \HFF, \HFF, \HFF, \HFF>>,
                                   <<\HDA, \H0A, \HDC, \HFC, \H0E, \H1A, \HDB, \H00>>),
            Patch("DTC", \H70A77, <<\H02>>, <<\H00>>) >>),
       PatchSet(ca430069, NoVariant,
         << Patch("Jump", \H600D8, <<\HDA, \H0A, \H6C, \HDD>>, <<\HDA, \H0D, \HF8, \H3B>>),
            Patch("Code", \H53BF8, <<\H00, \H00, \HFF, \HFF, \HFF, \HFF, \HFF, \HFF>>,
                                   <<\HDA, \H0A, \HE4, \HFC, \H0E, \H1A, \HDB, \H00>>),
            Patch("DTC", \H70A6E, <<\H02>>, <<\H00>>) >>) >>

Catalog == {get_all_patch_sets[i] : i \in DOMAIN get_all_patch_sets}

-----------------------------------------------------------------------------
(* Byte buffers: &[u8] / Vec<u8> *)

\* data[i]
At(d, i) == IF i \in DOMAIN d.mem THEN d.mem[i] ELSE d.fill

\* The value standing for a slice whose range is out of bounds (a panic);
\* it is equal to no byte string.
OutOfBounds == <<-1>>

\* data[a..b]
Slice(d, a, b) ==
    IF b > d.len THEN OutOfBounds ELSE [k \in 1..(b - a) |-> At(d, a + k - 1)]

\* Mutant of CopyFromSlice: the copy runs one byte past the window.
CopyFromSlice_OneTooMany(d, a, bytes) ==
    [d EXCEPT !.mem =
        [i \in DOMAIN d.mem \cup {a + k - 1 : k \in 1..(Len(bytes) + 1)} |->
            IF a <= i /\ i < a + Len(bytes) THEN bytes[i - a + 1]
            ELSE IF i = a + Len(bytes) THEN 0 ELSE d.mem[i]]]

\* data[a..a+len(bytes)].copy_from_slice(bytes)
CopyFromSlice(d, a, bytes) ==
    [d EXCEPT !.mem =
        [i \in DOMAIN d.mem \cup {a + k - 1 : k \in 1..Len(bytes)} |->
            IF a <= i /\ i < a + Len(bytes) THEN bytes[i - a + 1] ELSE d.mem[i]]]

-----------------------------------------------------------------------------
(* patcher.rs *)

ValidationMismatch(offset, expected, found) ==
    [tag |-> "ValidationMismatch", offset |-> offset, expected |-> expected, found |-> found]

FileTooSmall(patch_name, offset) ==
    [tag |-> "FileTooSmall", patch_name |-> patch_name, offset |-> offset]

Ok(value) == [tag |-> "Ok", value |-> value]

\* Mutant of ValidateFrom: the mismatch error carries the expected and the
\* found bytes the wrong way round.
RECURSIVE ValidateFrom_SwappedFields(_, _, _)
ValidateFrom_SwappedFields(d, patches, i) ==
    IF i > Len(patches) THEN Ok(<<>>)
    ELSE LET patch == patches[i]
             end_offset == patch.offset + Len(patch.original)
         IN  IF d.len < end_offset
             THEN FileTooSmall(patch.name, patch.offset)
             ELSE LET actual_bytes == Slice(d, patch.offset, end_offset)
                  IN  IF actual_bytes # patch.original
                      THEN ValidationMismatch(patch.offset, actual_bytes, patch.original)
                      ELSE ValidateFrom_SwappedFields(d, patches, i + 1)

\* Mutant of ValidateFrom: the length check lets a buffer one byte short of
\* the window through.
RECURSIVE ValidateFrom_OffByOne(_, _, _)
ValidateFrom_OffByOne(d, patches, i) ==
    IF i > Len(patches) THEN Ok(<<>>)
    ELSE LET patch == patches[i]
             end_offset == patch.offset + Len(patch.original)
         IN  IF d.len < end_offset - 1
             THEN FileTooSmall(patch.name, patch.offset)
             ELSE LET actual_bytes == Slice(d, patch.offset, end_offset)
                  IN  IF actual_bytes # patch.original
                      THEN ValidationMismatch(patch.offset, patch.original, actual_bytes)
                      ELSE ValidateFrom_OffByOne(d, patches, i + 1)

\* Mutant of ValidateFrom: the loop returns Ok as soon as the first patch
\* it looks at has passed.
ValidateFrom_FirstOnly(d, patches, i) ==
    IF i > Len(patches) THEN Ok(<<>>)
    ELSE LET patch == patches[i]
             end_offset == patch.offset + Len(patch.original)
         IN  IF d.len < end_offset
             THEN FileTooSmall(patch.name, patch.offset)
             ELSE LET actual_bytes == Slice(d, patch.offset, end_offset)
                  IN  IF actual_bytes # patch.original
                      THEN ValidationMismatch(patch.offset, patch.original, actual_bytes)
                      ELSE Ok(<<>>)

\* Mutant of ValidateFrom: the loop checks every patch and reports the last
\* failure it met instead of returning at the first.
RECURSIVE ValidateFrom_LastFailure(_, _, _)
ValidateFrom_LastFailure(d, patches, i) ==
    IF i > Len(patches) THEN Ok(<<>>)
    ELSE LET patch == patches[i]
             end_offset == patch.offset + Len(patch.original)
             later == ValidateFrom_LastFailure(d, patches, i + 1)
         IN  IF later.tag # "Ok" THEN later
             ELSE IF d.len < end_offset
                  THEN FileTooSmall(patch.name, patch.offset)
                  ELSE LET actual_bytes == Slice(d, patch.offset, end_offset)
                       IN  IF actual_bytes # patch.original
                           THEN ValidationMismatch(patch.offset, patch.original,
                                                   actual_bytes)
                           ELSE Ok(<<>>)

\* The loop of validate_pre_patch from the i-th patch on.
RECURSIVE ValidateFrom(_, _, _)
ValidateFrom(d, patches, i) ==
    IF i > Len(patches) THEN Ok(<<>>)
    ELSE LET patch == patches[i]
             end_offset == patch.offset + Len(patch.original)
         IN  IF d.len < end_offset
             THEN FileTooSmall(patch.name, patch.offset)
             ELSE LET actual_bytes == Slice(d, patch.offset, end_offset)
                  IN  IF actual_bytes # patch.original
                      THEN ValidationMismatch(patch.offset, patch.original, actual_bytes)
                      ELSE ValidateFrom(d, patches, i + 1)

\* Mutant of validate_pre_patch: a window already holding `patched` is
\* accepted as well.
RECURSIVE ValidateLenientFrom(_, _, _)
ValidateLenientFrom(d, patches, i) ==
    IF i > Len(patches) THEN Ok(<<>>)
    ELSE LET patch == patches[i]
             end_offset == patch.offset + Len(patch.original)
         IN  IF d.len < end_offset
             THEN FileTooSmall(patch.name, patch.offset)
             ELSE LET actual_bytes == Slice(d, patch.offset, end_offset)
                  IN  IF actual_bytes # patch.original /\ actual_bytes # patch.patched
                      THEN ValidationMismatch(patch.offset, patch.original, actual_bytes)
                      ELSE ValidateLenientFrom(d, patches, i + 1)

validate_pre_patch_AcceptsPatched(d, ps) == ValidateLenientFrom(d, ps.patches, 1)

validate_pre_patch(d, ps) == ValidateFrom(d, ps.patches, 1)

\* Mutant of RevertValidateFrom: the loop stops one patch early.
RECURSIVE RevertValidateFrom_SkipLast(_, _, _)
RevertValidateFrom_SkipLast(d, patches, i) ==
    IF i >= Len(patches) THEN Ok(<<>>)
    ELSE LET patch == patches[i]
             end_offset == patch.offset + Len(patch.patched)
         IN  IF d.len < end_offset
             THEN FileTooSmall(patch.name, patch.offset)
             ELSE LET actual_bytes == Slice(d, patch.offset, end_offset)
                  IN  IF actual_bytes # patch.patched
                      THEN ValidationMismatch(patch.offset, patch.patched, actual_bytes)
                      ELSE RevertValidateFrom_SkipLast(d, patches, i + 1)

\* The validation loop at the head of revert_patches from the i-th patch on.
RECURSIVE RevertValidateFrom(_, _, _)
RevertValidateFrom(d, patches, i) ==
    IF i > Len(patches) THEN Ok(<<>>)
    ELSE LET patch == patches[i]
             end_offset == patch.offset + Len(patch.patched)
         IN  IF d.len < end_offset
             THEN FileTooSmall(patch.name, patch.offset)
             ELSE LET actual_bytes == Slice(d, patch.offset, end_offset)
                  IN  IF actual_bytes # patch.patched
                      THEN ValidationMismatch(patch.offset, patch.patched, actual_bytes)
                      ELSE RevertValidateFrom(d, patches, i + 1)

\* A log line: format!("  {verb} {name} patch at offset {:#X}", ...)
LogLine(verb, name, offset) == <<verb, name, offset>>

\* Mutant of ApplyWriteFrom: the loop stops one patch early.
RECURSIVE ApplyWriteFrom_SkipLast(_, _, _, _)
ApplyWriteFrom_SkipLast(d, patches, i, logs) ==
    IF i >= Len(patches) THEN [res |-> Ok(logs), data |-> d]
    ELSE LET patch == patches[i]
             end_offset == patch.offset + Len(patch.patched)
         IN  IF d.len < end_offset
             THEN [res |-> FileTooSmall(patch.name, patch.offset), data |-> d]
             ELSE ApplyWriteFrom_SkipLast(CopyFromSlice(d, patch.offset, patch.patched),
                                          patches, i + 1,
                                          Append(logs, LogLine("Applied", patch.name, patch.offset)))

\* The write loop of apply_patches from the i-th patch on; yields the
\* result and the buffer as the loop leaves it.
RECURSIVE ApplyWriteFrom(_, _, _, _)
ApplyWriteFrom(d, patches, i, logs) ==
    IF i > Len(patches) THEN [res |-> Ok(logs), data |-> d]
    ELSE LET patch == patches[i]
             end_offset == patch.offset + Len(patch.patched)
         IN  IF d.len < end_offset
             THEN [res |-> FileTooSmall(patch.name, patch.offset), data |-> d]
             ELSE ApplyWriteFrom(CopyFromSlice(d, patch.offset, patch.patched),
                                 patches, i + 1,
                                 Append(logs, LogLine("Applied", patch.name, patch.offset)))

\* Mutant of apply_patches: one loop that validates and writes patch by
\* patch instead of validating the whole set first.
RECURSIVE ApplyInterleavedFrom(_, _, _, _)
ApplyInterleavedFrom(d, patches, i, logs) ==
    IF i > Len(patches) THEN [res |-> Ok(logs), data |-> d]
    ELSE LET patch == patches[i]
             end_offset == patch.offset + Len(patch.original)
         IN  IF d.len < end_offset
             THEN [res |-> FileTooSmall(patch.name, patch.offset), data |-> d]
             ELSE LET actual_bytes == Slice(d, patch.offset, end_offset)
                  IN  IF actual_bytes # patch.original
                      THEN [res |-> ValidationMismatch(patch.offset, patch.original,
                                                       actual_bytes),
                            data |-> d]
                      ELSE ApplyInterleavedFrom(
                               CopyFromSlice(d, patch.offset, patch.patched),
                               patches, i + 1,
                               Append(logs, LogLine("Applied", patch.name, patch.offset)))

apply_patches_Interleaved(d, ps) == ApplyInterleavedFrom(d, ps.patches, 1, <<>>)

apply_patches(d, ps) ==
    LET v == validate_pre_patch(d, ps)
    IN  IF v.tag # "Ok" THEN [res |-> v, data |-> d]
        ELSE ApplyWriteFrom(d, ps.patches, 1, <<>>)

\* Mutant of RevertWriteFrom: the loop copies `patched` again instead of
\* `original`.
RECURSIVE RevertWriteFrom_WritesPatched(_, _, _, _)
RevertWriteFrom_WritesPatched(d, patches, i, logs) ==
    IF i > Len(patches) THEN [res |-> Ok(logs), data |-> d]
    ELSE LET patch == patches[i]
             end_offset == patch.offset + Len(patch.original)
         IN  IF d.len < end_offset
             THEN [res |-> FileTooSmall(patch.name, patch.offset), data |-> d]
             ELSE RevertWriteFrom_WritesPatched(
                      CopyFromSlice(d, patch.offset, patch.patched),
                      patches, i + 1,
                      Append(logs, LogLine("Reverted", patch.name, patch.offset)))

\* The write loop of revert_patches from the i-th patch on.
RECURSIVE RevertWriteFrom(_, _, _, _)
RevertWriteFrom(d, patches, i, logs) ==
    IF i > Len(patches) THEN [res |-> Ok(logs), data |-> d]
    ELSE LET patch == patches[i]
             end_offset == patch.offset + Len(patch.original)
         IN  IF d.len < end_offset
             THEN [res |-> FileTooSmall(patch.name, patch.offset), data |-> d]
             ELSE RevertWriteFrom(CopyFromSlice(d, patch.offset, patch.original),
                                  patches, i + 1,
                                  Append(logs, LogLine("Reverted", patch.name, patch.offset)))

revert_patches(d, ps) ==
    LET v == RevertValidateFrom(d, ps.patches, 1)
    IN  IF v.tag # "Ok" THEN [res |-> v, data |-> d]
        ELSE RevertWriteFrom(d, ps.patches, 1, <<>>)

PatchStatus == {"Patched", "Unpatched", "Unknown"}

\* Mutant of get_patch_status: `original` is compared before `patched`.
get_patch_status_OriginalFirst(d, patch) ==
    LET patched_end == patch.offset + Len(patch.patched)
        original_end == patch.offset + Len(patch.original)
    IN  IF d.len >= original_end /\ Slice(d, patch.offset, original_end) = patch.original
        THEN "Unpatched"
        ELSE IF d.len >= patched_end /\ Slice(d, patch.offset, patched_end) = patch.patched
             THEN "Patched"
             ELSE "Unknown"

get_patch_status(d, patch) ==
    LET patched_end == patch.offset + Len(patch.patched)
        original_end == patch.offset + Len(patch.original)
    IN  IF d.len >= patched_end /\ Slice(d, patch.offset, patched_end) = patch.patched
        THEN "Patched"
        ELSE IF d.len >= original_end /\ Slice(d, patch.offset, original_end) = patch.original
             THEN "Unpatched"
             ELSE "Unknown"

\* patch_set.patches.iter().find(|p| p.name == name): the index of the
\* first patch of that name, 0 when there is none.
FindByName(patches, name) ==
    LET hits == {i \in DOMAIN patches : patches[i].name = name}
    IN  IF hits = {} THEN 0 ELSE CHOOSE i \in hits : \A j \in hits : i <= j

StatusOfRole(d, ps, name) ==
    LET i == FindByName(ps.patches, name)
    IN  IF i = 0 THEN "Unknown" ELSE get_patch_status(d, ps.patches[i])

check_patch_status(d, ps) ==
    <<StatusOfRole(d, ps, "Jump"), StatusOfRole(d, ps, "Code"), StatusOfRole(d, ps, "DTC")>>

-----------------------------------------------------------------------------
(* version.rs *)

VERSION_STRING_OFFSET == \H70040
VERSION_STRING_LENGTH == 16

VersionFileTooSmall == [tag |-> "FileTooSmall"]
InvalidUtf8(offset) == [tag |-> "InvalidUtf8", offset |-> offset]
UnsupportedVersion(found) == [tag |-> "UnsupportedVersion", found |-> found]
UnknownVersion == [tag |-> "UnknownVersion"]

\* PATCH_SETS_MAP: every set of get_all_patch_sets inserted, in list order,
\* under its key (version_string, hardware_variant); a later insertion under
\* an equal key replaces the earlier one.
MapKey(ps) == <<ps.version_string, ps.hardware_variant>>

PATCH_SETS_MAP ==
    LET all == get_all_patch_sets
        keys == {MapKey(all[i]) : i \in DOMAIN all}
        last(k) == CHOOSE i \in DOMAIN all :
                      /\ MapKey(all[i]) = k
                      /\ \A j \in DOMAIN all : MapKey(all[j]) = k => j <= i
    IN  [k \in keys |-> all[last(k)]]

\* The orders in which PATCH_SETS_MAP.iter() may yield the keys: a HashMap
\* with the default (randomly seeded) hasher fixes none.
MapOrders ==
    LET keys == DOMAIN PATCH_SETS_MAP
        n == Cardinality(keys)
    IN  {s \in [1..n -> keys] : \A i, j \in 1..n : i # j => s[i] # s[j]}

\* .take_while(|b| b != 0)
\* Mutant of TakeUntilNul: the scan stops at the first byte that is zero or
\* not printable.
RECURSIVE TakeUntilNul_StopsAtNonPrintable(_)
TakeUntilNul_StopsAtNonPrintable(bytes) ==
    IF bytes = <<>> \/ Head(bytes) < \H20 \/ Head(bytes) > \H7E THEN <<>>
    ELSE <<Head(bytes)>> \o TakeUntilNul_StopsAtNonPrintable(Tail(bytes))

RECURSIVE TakeUntilNul(_)
TakeUntilNul(bytes) ==
    IF bytes = <<>> \/ Head(bytes) = 0 THEN <<>>
    ELSE <<Head(bytes)>> \o TakeUntilNul(Tail(bytes))

\* .filter(|b| b >= 0x20 && b <= 0x7e)
RECURSIVE FilterPrintable(_)
FilterPrintable(bytes) ==
    IF bytes = <<>> THEN <<>>
    ELSE IF Head(bytes) >= \H20 /\ Head(bytes) <= \H7E
         THEN <<Head(bytes)>> \o FilterPrintable(Tail(bytes))
         ELSE FilterPrintable(Tail(bytes))

version_str_cleaned(version_bytes) == FilterPrintable(TakeUntilNul(version_bytes))

\* str::starts_with
StartsWith(s, prefix) ==
    /\ Len(prefix) <= Len(s)
    /\ \A i \in 1..Len(prefix) : s[i] = prefix[i]

\* Mutant of FindInMap: the first entry the iterator yields is taken,
\* whether or not its version string matches.
FindInMap_FirstEntry(order, cleaned) == IF order = <<>> THEN 0 ELSE 1

\* Mutant of FindInMap: the last matching entry is taken instead of the
\* first.
FindInMap_LastHit(order, cleaned) ==
    LET hits == {i \in DOMAIN order : StartsWith(cleaned, order[i][1])}
    IN  IF hits = {} THEN 0 ELSE CHOOSE i \in hits : \A j \in hits : i >= j

\* PATCH_SETS_MAP.iter().find(..): the position in `order` of the first key
\* whose version string the cleaned string starts with, 0 when there is none.
FindInMap(order, cleaned) ==
    LET hits == {i \in DOMAIN order : StartsWith(cleaned, order[i][1])}
    IN  IF hits = {} THEN 0 ELSE CHOOSE i \in hits : \A j \in hits : i <= j

\* Mutant of detect_version: the "ca" family prefix is not checked before
\* the catalog is searched.
detect_version_NoFamilyCheck(d, order) ==
    IF d.len < VERSION_STRING_OFFSET + VERSION_STRING_LENGTH
    THEN VersionFileTooSmall
    ELSE LET version_bytes == Slice(d, VERSION_STRING_OFFSET,
                                    VERSION_STRING_OFFSET + VERSION_STRING_LENGTH)
             cleaned == version_str_cleaned(version_bytes)
             i == FindInMap(order, cleaned)
         IN  IF i = 0 THEN UnsupportedVersion(cleaned)
             ELSE Ok(PATCH_SETS_MAP[order[i]])

\* detect_version, with `order` the iteration order of PATCH_SETS_MAP.
detect_version(d, order) ==
    IF d.len < VERSION_STRING_OFFSET + VERSION_STRING_LENGTH
    THEN VersionFileTooSmall
    ELSE LET version_bytes == Slice(d, VERSION_STRING_OFFSET,
                                    VERSION_STRING_OFFSET + VERSION_STRING_LENGTH)
             cleaned == version_str_cleaned(version_bytes)
         IN  IF ~StartsWith(cleaned, <<99, 97>>)
             THEN UnknownVersion
             ELSE LET i == FindInMap(order, cleaned)
                  IN  IF i = 0 THEN UnsupportedVersion(cleaned)
                      ELSE Ok(PATCH_SETS_MAP[order[i]])

-----------------------------------------------------------------------------
(* gui/main_window.rs: AppState.  The field `log` is left out: the handlers *)
(* only append to it and the window only prints it.                         *)

None == <<>>
Some(x) == <<x>>

AppState_default ==
    [file_path |-> "",
     file_data |-> None,
     patch_set |-> None,
     selected_patch_index |-> None,
     detected_version |-> "N/A",
     hardware_variant |-> "N/A",
     patch_status |-> <<"Unknown", "Unknown", "Unknown">>]

\* Mutant of reset_state: the buffer of the previous file is kept.
reset_state_KeepsData(a) ==
    [a EXCEPT !.patch_set = None,
              !.selected_patch_index = None,
              !.detected_version = "N/A",
              !.hardware_variant = "N/A",
              !.patch_status = <<"Unknown", "Unknown", "Unknown">>]

reset_state(a) ==
    [a EXCEPT !.file_data = None,
              !.patch_set = None,
              !.selected_patch_index = None,
              !.detected_version = "N/A",
              !.hardware_variant = "N/A",
              !.patch_status = <<"Unknown", "Unknown", "Unknown">>]

can_apply(a) == a.patch_status = <<"Unpatched", "Unpatched", "Unpatched">>
can_revert(a) == a.patch_status = <<"Patched", "Patched", "Patched">>

-----------------------------------------------------------------------------
(* Input images *)

Max(a, b) == IF a >= b THEN a ELSE b

\* The addresses of a modification window, with its guard bytes.
PatchAddrs(patch) ==
    (patch.offset - GuardWidth) ..
    (patch.offset + Max(Len(patch.original), Len(patch.patched)) - 1 + GuardWidth)

TagAddrs ==
    VERSION_STRING_OFFSET .. (VERSION_STRING_OFFSET + VERSION_STRING_LENGTH - 1)

ImageAddrs(E) ==
    UNION {PatchAddrs(E.patches[k]) : k \in DOMAIN E.patches} \cup TagAddrs

\* Which reference each modification window of an image holds.
WindowStates(E) == [DOMAIN E.patches -> {"original", "patched"}]
AllOriginal(E) == [k \in DOMAIN E.patches |-> "original"]
AllPatched(E) == [k \in DOMAIN E.patches |-> "patched"]

Reference(patch, which) == IF which = "original" THEN patch.original ELSE patch.patched

\* The byte at address i of the image of firmware E whose k-th window holds
\* the reference w[k], whose version field holds `tag` padded with zeros, and
\* whose other bytes are `fill`.
ImageByte(E, w, tag, fill, i) ==
    LET inside == {k \in DOMAIN E.patches :
                      /\ E.patches[k].offset <= i
                      /\ i < E.patches[k].offset + Len(Reference(E.patches[k], w[k]))}
    IN  IF inside # {}
        THEN LET k == CHOOSE k \in inside : TRUE
             IN  Reference(E.patches[k], w[k])[i - E.patches[k].offset + 1]
        ELSE IF i \in TagAddrs
             THEN IF i - VERSION_STRING_OFFSET + 1 <= Len(tag)
                  THEN tag[i - VERSION_STRING_OFFSET + 1]
                  ELSE 0
             ELSE fill

\* That image, cut to its first n bytes.
Image(E, w, tag, fill, n) ==
    [len |-> n,
     fill |-> fill,
     mem |-> [i \in {a \in ImageAddrs(E) : a < n} |-> ImageByte(E, w, tag, fill, i)]]

\* Image d with the byte at address a set to v.
Corrupt(d, a, v) == [d EXCEPT !.mem[a] = v]

\* The lengths at which an image of E is cut just short of a window.
CutLens(E) ==
    {E.patches[k].offset + Len(E.patches[k].original) - 1 : k \in DOMAIN E.patches}

\* Inputs of the engine: images of E with every combination of original and
\* patched windows, whole or cut short, and whole images with all windows
\* alike and one byte of a window or of its guards changed.
EngineImages(E) ==
    {Image(E, w, E.version_string, fill, n) :
        w \in WindowStates(E), fill \in FillSamples, n \in {FullLen} \cup CutLens(E)}
    \cup
    UNION {LET d == Image(E, w, E.version_string, fill, FullLen)
           IN  {Corrupt(d, a, v) :
                   a \in UNION {PatchAddrs(E.patches[k]) : k \in DOMAIN E.patches},
                   v \in ByteSamples} \ {d} :
           w \in {AllOriginal(E), AllPatched(E)}, fill \in FillSamples}

\* Version fields derived from a version string: the string itself, with
\* trailing garbage, with a control byte inside, with its last character
\* changed, cut short by a zero byte, with a wrong first character, and
\* filling the field with no zero byte at all.
TagsOf(v) ==
    { v,
      v \o <<88, 89>>,
      <<v[1], 1>> \o Tail(v),
      [v EXCEPT ![Len(v)] = 56],
      SubSeq(v, 1, 2) \o <<0>> \o SubSeq(v, 3, Len(v)),
      <<120>> \o Tail(v),
      v \o [k \in 1..(VERSION_STRING_LENGTH - Len(v)) |-> 255],
      <<>> }

DetectLens ==
    {FullLen,
     VERSION_STRING_OFFSET + VERSION_STRING_LENGTH,
     VERSION_STRING_OFFSET + VERSION_STRING_LENGTH - 1}

\* Inputs of the detector: zero-filled images of E with original windows and
\* a version field derived from E's version string or naming another catalog
\* version.
DetectImages(E) ==
    {Image(E, AllOriginal(E), tag, 0, n) :
        tag \in TagsOf(E.version_string) \cup {ps.version_string : ps \in Catalog},
        n \in DetectLens}

\* Patch sets outside the catalog that the structs Patch and PatchSet
\* admit: `original` and `patched` are independent byte vectors, so a
\* modification may grow or shrink its window, and one reference may be a
\* prefix of the other.
GrowingSet ==
    PatchSet(<<103>>, NoVariant,
        << Patch("Jump", 3, <<1>>, <<2>>),
           Patch("Code", 7, <<3>>, <<3, 4>>),
           Patch("DTC", 11, <<5>>, <<6, 7>>) >>)

ShrinkingSet ==
    PatchSet(<<115>>, NoVariant,
        << Patch("Jump", 3, <<1>>, <<2>>),
           Patch("Code", 7, <<3, 4>>, <<3>>),
           Patch("DTC", 11, <<5, 5>>, <<6>>) >>)

OtherSets == {GrowingSet, ShrinkingSet}

\* Inputs of the engine for those sets: buffers of every length up to
\* SmallLen holding every combination of original and patched windows.
SmallImages(E) ==
    {Image(E, w, <<>>, fill, n) :
        w \in WindowStates(E), fill \in FillSamples, n \in 0..SmallLen}

\* Files the file dialog can pick: the path and what fs::read gives for it.
\* Images of ca430037 with original, patched and mixed windows, with a
\* foreign version field, cut after the version field and cut before it; an
\* image of ca430056; and a file that cannot be read.
ReadError == [tag |-> "ReadError"]

File(path, read) == [path |-> path, read |-> read]

GuiFiles ==
    LET E == get_all_patch_sets[1]
        F == get_all_patch_sets[2]
        tag == E.version_string
    IN  { File("original.bin", Ok(Image(E, AllOriginal(E), tag, 0, FullLen))),
          File("patched.bin", Ok(Image(E, AllPatched(E), tag, 0, FullLen))),
          File("mixed.bin",
               Ok(Image(E, [AllOriginal(E) EXCEPT ![1] = "patched"], tag, 0, FullLen))),
          File("foreign.bin",
               Ok(Image(E, AllOriginal(E), <<120>> \o Tail(tag), 0, FullLen))),
          File("newer.bin",
               Ok(Image(E, AllOriginal(E), [tag EXCEPT ![Len(tag)] = 56], 0, FullLen))),
          File("cut.bin",
               Ok(Image(E, AllOriginal(E), tag, 0,
                        VERSION_STRING_OFFSET + VERSION_STRING_LENGTH))),
          File("short.bin", Ok(Image(E, AllOriginal(E), tag, 0, VERSION_STRING_OFFSET))),
          File("ca430056.bin", Ok(Image(F, AllOriginal(F), F.version_string, 0, FullLen))),
          File("unreadable.bin", ReadError) }

\* What the save dialog and fs::write can do with a patched buffer.
SaveOutcomes == {"saved", "cancelled", "write failed"}

-----------------------------------------------------------------------------
(* State machine *)

NoSet == <<>>

\* The record of a call, made after the call recorded in `last`.
Call(name, res, pre, last) ==
    [name |-> name, res |-> res, pre |-> pre, prev |-> <<last.name, last.res.tag>>]

NoCall(d) ==
    [name |-> "none", res |-> [tag |-> "None"], pre |-> d, prev |-> <<"none", "None">>]

\* The engine is handed an input image and a catalog set.
Init ==
    /\ data \in UNION {EngineImages(E) : E \in Catalog}
    /\ patch_set \in {<<ps>> : ps \in Catalog}
    /\ map_order = <<>>
    /\ op = NoCall(data)
    /\ app_state = AppState_default

\* An input image is loaded; no set is detected yet.
InitDetect ==
    /\ data \in UNION {DetectImages(E) : E \in Catalog}
    /\ patch_set = NoSet
    /\ map_order = <<>>
    /\ op = NoCall(data)
    /\ app_state = AppState_default

\* detect_version(&data); PATCH_SETS_MAP is built, and its iteration order
\* fixed, when it is first used.
Detect ==
    \E order \in (IF map_order = <<>> THEN MapOrders ELSE {map_order}) :
        LET r == detect_version(data, order)
        IN  /\ op' = Call("detect", r, data, op)
            /\ patch_set' = IF r.tag = "Ok" THEN <<r.value>> ELSE NoSet
            /\ map_order' = IF r.tag \in {"FileTooSmall", "UnknownVersion"}
                            THEN map_order ELSE order
            /\ UNCHANGED <<data, app_state>>

\* patcher::apply_patches(data, patch_set)
Apply ==
    /\ patch_set # NoSet
    /\ LET r == apply_patches(data, patch_set[1])
       IN  /\ data' = r.data
           /\ op' = Call("apply", r.res, data, op)
    /\ UNCHANGED <<patch_set, map_order, app_state>>

\* patcher::revert_patches(data, patch_set)
Revert ==
    /\ patch_set # NoSet
    /\ LET r == revert_patches(data, patch_set[1])
       IN  /\ data' = r.data
           /\ op' = Call("revert", r.res, data, op)
    /\ UNCHANGED <<patch_set, map_order, app_state>>

\* check_patch_status(&data, patch_set)
Status ==
    /\ patch_set # NoSet
    /\ op' = Call("status",
                   [tag |-> "Status", value |-> check_patch_status(data, patch_set[1])],
                   data, op)
    /\ UNCHANGED <<data, patch_set, map_order, app_state>>

Next == Apply \/ Revert \/ Status

Spec == Init /\ [][Next]_vars

NextDetect == Detect \/ Apply \/ Revert \/ Status

SpecDetect == InitDetect /\ [][NextDetect]_vars

\* The engine is handed a small buffer and a set outside the catalog.
InitOther ==
    /\ data \in UNION {SmallImages(E) : E \in OtherSets}
    /\ patch_set \in {<<ps>> : ps \in OtherSets}
    /\ map_order = <<>>
    /\ op = NoCall(data)
    /\ app_state = AppState_default

SpecOther == InitOther /\ [][Next]_vars

\* The window opens with the default AppState; no file is loaded.
EmptyBuffer == [len |-> 0, fill |-> 0, mem |-> <<>>]

InitGui ==
    /\ data = EmptyBuffer
    /\ patch_set = NoSet
    /\ map_order = <<>>
    /\ op = NoCall(EmptyBuffer)
    /\ app_state = AppState_default

\* "Browse...": the dialog is cancelled, or a file is picked; the state is
\* reset, the file read and its version detected, and on success the set,
\* its status and the buffer are stored.
Browse ==
    /\ \E pick \in {None} \cup {Some(f) : f \in GuiFiles} :
           IF pick = None THEN UNCHANGED <<app_state, op, map_order>>
           ELSE LET f == pick[1]
                    cleared == [reset_state(app_state) EXCEPT !.file_path = f.path]
                IN  IF f.read.tag # "Ok"
                    THEN /\ app_state' = cleared
                         /\ op' = Call("browse", f.read, EmptyBuffer, op)
                         /\ UNCHANGED map_order
                    ELSE \E order \in (IF map_order = <<>> THEN MapOrders ELSE {map_order}) :
                             LET d == f.read.value
                                 r == detect_version(d, order)
                             IN  /\ app_state' =
                                        IF r.tag # "Ok" THEN cleared
                                        ELSE [cleared EXCEPT
                                                 !.detected_version = r.value.version_string,
                                                 !.hardware_variant =
                                                     IF r.value.hardware_variant = NoVariant
                                                     THEN "N/A"
                                                     ELSE r.value.hardware_variant[1],
                                                 !.patch_status = check_patch_status(d, r.value),
                                                 !.patch_set = Some(r.value),
                                                 !.file_data = Some(d)]
                                 /\ op' = Call("browse", r, d, op)
                                 /\ map_order' = IF r.tag \in {"FileTooSmall", "UnknownVersion"}
                                                 THEN map_order ELSE order
    /\ UNCHANGED <<data, patch_set>>

\* A click on one of the three status lines.
SelectPatch ==
    /\ \E i \in 0..2 : app_state' = [app_state EXCEPT !.selected_patch_index = Some(i)]
    /\ UNCHANGED <<data, patch_set, map_order, op>>

\* "Apply Patches", enabled by can_apply: the buffer is patched in place and,
\* when the engine succeeds, offered for saving; the status is set after a
\* successful write.
ApplyClick ==
    /\ can_apply(app_state)
    /\ IF app_state.file_data # None /\ app_state.patch_set # None
       THEN LET r == apply_patches(app_state.file_data[1], app_state.patch_set[1])
            IN  \E save \in SaveOutcomes :
                    /\ app_state' =
                           [app_state EXCEPT
                               !.file_data = Some(r.data),
                               !.patch_status =
                                   IF r.res.tag = "Ok" /\ save = "saved"
                                   THEN <<"Patched", "Patched", "Patched">> ELSE @]
                    /\ op' = Call("apply", r.res, app_state.file_data[1], op)
       ELSE UNCHANGED <<app_state, op>>
    /\ UNCHANGED <<data, patch_set, map_order>>

\* "Revert", enabled by can_revert.
RevertClick ==
    /\ can_revert(app_state)
    /\ IF app_state.file_data # None /\ app_state.patch_set # None
       THEN LET r == revert_patches(app_state.file_data[1], app_state.patch_set[1])
            IN  \E save \in SaveOutcomes :
                    /\ app_state' =
                           [app_state EXCEPT
                               !.file_data = Some(r.data),
                               !.patch_status =
                                   IF r.res.tag = "Ok" /\ save = "saved"
                                   THEN <<"Unpatched", "Unpatched", "Unpatched">> ELSE @]
                    /\ op' = Call("revert", r.res, app_state.file_data[1], op)
       ELSE UNCHANGED <<app_state, op>>
    /\ UNCHANGED <<data, patch_set, map_order>>

NextGui == Browse \/ SelectPatch \/ ApplyClick \/ RevertClick

SpecGui == InitGui /\ [][NextGui]_vars

-----------------------------------------------------------------------------
(* Properties.  In each, `op` records the call the property is about:       *)
(* op.pre is the buffer before the call, `data` the buffer after it and    *)
(* patch_set[1] the set it was called with.                                 *)

\* The window of `patch` in d holds exactly the bytes `ref`.
WindowIs(d, patch, ref) ==
    /\ d.len >= patch.offset + Len(ref)
    /\ \A k \in 1..Len(ref) : At(d, patch.offset + k - 1) = ref[k]

\* Every window of ps in d holds its "original" / "patched" reference.
AllWindows(d, ps, which) ==
    \A k \in DOMAIN ps.patches :
        WindowIs(d, ps.patches[k], Reference(ps.patches[k], which))

AllStatus(s) == <<s, s, s>>

\* The addresses [offset, offset+len) of the windows of ps, len taken from
\* the reference `which`.
WindowAddrs(ps, which) ==
    UNION {{ps.patches[k].offset + j - 1 :
               j \in 1..Len(Reference(ps.patches[k], which))} : k \in DOMAIN ps.patches}

\* Buffers a and b have the same length and the same byte at every address
\* outside `addrs`.
SameOutside(a, b, addrs) ==
    /\ a.len = b.len
    /\ a.fill = b.fill
    /\ \A i \in (DOMAIN a.mem \cup DOMAIN b.mem) \ addrs : At(a, i) = At(b, i)

\* C1: apply_patches on a buffer whose windows all hold `original` returns
\* Ok, leaves every window holding `patched`, and check_patch_status then
\* reports (Patched, Patched, Patched).
C1_ApplyOnOriginal ==
    (op.name = "apply" /\ AllWindows(op.pre, patch_set[1], "original")) =>
        /\ op.res.tag = "Ok"
        /\ AllWindows(data, patch_set[1], "patched")
        /\ check_patch_status(data, patch_set[1]) = AllStatus("Patched")

C1_Witness ==
    /\ op.name = "apply"
    /\ AllWindows(op.pre, patch_set[1], "original")
    /\ op.res.tag = "Ok"
    /\ patch_set[1] = get_all_patch_sets[5]

\* C2: a successful apply_patches or revert_patches leaves the buffer length
\* and every byte outside the set's windows unchanged.
C2_Frame ==
    /\ (op.name = "apply" /\ op.res.tag = "Ok") =>
           SameOutside(op.pre, data, WindowAddrs(patch_set[1], "patched"))
    /\ (op.name = "revert" /\ op.res.tag = "Ok") =>
           SameOutside(op.pre, data, WindowAddrs(patch_set[1], "original"))

\* A successful apply on an image whose guard byte next to a window differs
\* from the surrounding fill.
C2_Witness ==
    /\ op.name = "apply"
    /\ op.res.tag = "Ok"
    /\ \E i \in DOMAIN op.pre.mem \ (WindowAddrs(patch_set[1], "patched") \cup TagAddrs) :
           op.pre.mem[i] # op.pre.fill

\* C3: when the validation pass of apply_patches (against original) or of
\* revert_patches (against patched) fails, the call returns that error and
\* the buffer is identical to the buffer before the call.
C3_FailedValidationWritesNothing ==
    /\ (op.name = "apply" /\ ~AllWindows(op.pre, patch_set[1], "original")) =>
           /\ op.res.tag \in {"FileTooSmall", "ValidationMismatch"}
           /\ op.res = validate_pre_patch(op.pre, patch_set[1])
           /\ data = op.pre
    /\ (op.name = "revert" /\ ~AllWindows(op.pre, patch_set[1], "patched")) =>
           /\ op.res.tag \in {"FileTooSmall", "ValidationMismatch"}
           /\ op.res = RevertValidateFrom(op.pre, patch_set[1].patches, 1)
           /\ data = op.pre

\* An apply that failed on the last modification after the first two had
\* validated.
C3_Witness ==
    /\ op.name = "apply"
    /\ op.res.tag = "ValidationMismatch"
    /\ op.res.offset = patch_set[1].patches[3].offset
    /\ WindowIs(op.pre, patch_set[1].patches[1], patch_set[1].patches[1].original)

\* C4: after a successful apply_patches, a revert_patches with the same set
\* on the same buffer succeeds and leaves the buffer as it was before the
\* apply.
C4_RoundTrip ==
    [][(op.name = "apply" /\ op.res.tag = "Ok" /\ op'.name = "revert") =>
           (op'.res.tag = "Ok" /\ data' = op.pre)]_vars

C4_Witness ==
    /\ op.name = "revert"
    /\ op.prev = <<"apply", "Ok">>
    /\ op.res.tag = "Ok"
    /\ AllWindows(data, patch_set[1], "original")

\* C5: apply_patches on a buffer whose windows all hold `patched`, and any
\* apply_patches that follows a successful one, fails with
\* ValidationMismatch and leaves the buffer as it was.
C5_ApplyOnPatchedFails ==
    (/\ op.name = "apply"
     /\ \/ AllWindows(op.pre, patch_set[1], "patched")
        \/ op.prev = <<"apply", "Ok">>) =>
        /\ op.res.tag = "ValidationMismatch"
        /\ data = op.pre

C5_Witness ==
    /\ op.name = "apply"
    /\ op.prev = <<"apply", "Ok">>
    /\ AllWindows(op.pre, patch_set[1], "patched")
    /\ op.res.tag = "ValidationMismatch"

\* The buffer covers every window of ps, the k-th window differs from its
\* `original` in exactly one byte and every other window holds `original`.
OneByteChanged(d, ps, k) ==
    /\ \A j \in DOMAIN ps.patches :
           d.len >= ps.patches[j].offset + Len(ps.patches[j].original)
    /\ \A j \in DOMAIN ps.patches \ {k} :
           WindowIs(d, ps.patches[j], ps.patches[j].original)
    /\ Cardinality({i \in 1..Len(ps.patches[k].original) :
                       At(d, ps.patches[k].offset + i - 1) # ps.patches[k].original[i]}) = 1

\* C6: apply_patches on a buffer in the original state but for one changed
\* byte inside the window of a modification m fails with ValidationMismatch
\* whose offset is m.offset, whose expected bytes are m.original and whose
\* found bytes are the window's contents, and leaves the buffer as it was.
C6_OneByteMismatch ==
    op.name = "apply" =>
        \A k \in DOMAIN patch_set[1].patches :
            LET m == patch_set[1].patches[k]
            IN  OneByteChanged(op.pre, patch_set[1], k) =>
                    /\ op.res.tag = "ValidationMismatch"
                    /\ op.res.offset = m.offset
                    /\ op.res.expected = m.original
                    /\ op.res.found =
                           [i \in 1..Len(m.original) |-> At(op.pre, m.offset + i - 1)]
                    /\ op.res.found # m.original
                    /\ data = op.pre

\* An apply on a buffer with one byte of the Code window changed.
C6_Witness ==
    /\ op.name = "apply"
    /\ OneByteChanged(op.pre, patch_set[1], 2)
    /\ op.res.tag = "ValidationMismatch"

\* The end of the `original` window of the k-th modification of ps.
OriginalEnd(ps, k) == ps.patches[k].offset + Len(ps.patches[k].original)

\* The buffer is cut to one byte less than the k-th window of ps needs, and
\* every window of ps that still fits holds `original`.
TruncatedAt(d, ps, k) ==
    /\ d.len = OriginalEnd(ps, k) - 1
    /\ \A j \in DOMAIN ps.patches :
           OriginalEnd(ps, j) <= d.len => WindowIs(d, ps.patches[j], ps.patches[j].original)

\* C7 as stated: apply_patches on a buffer truncated to
\* m.offset + len(m.original) - 1 bytes fails with FileTooSmall naming m,
\* for any modification m of the set.
C7_Original ==
    op.name = "apply" =>
        \A k \in DOMAIN patch_set[1].patches :
            TruncatedAt(op.pre, patch_set[1], k) =>
                op.res = FileTooSmall(patch_set[1].patches[k].name,
                                      patch_set[1].patches[k].offset)

\* C7 amended: on such a buffer apply_patches fails with FileTooSmall naming
\* the first modification, in set order, whose window does not fit; that is
\* m itself when no modification listed before m ends beyond the cut.
C7_Amended ==
    op.name = "apply" =>
        \A k \in DOMAIN patch_set[1].patches :
            TruncatedAt(op.pre, patch_set[1], k) =>
                LET short == {j \in DOMAIN patch_set[1].patches :
                                 OriginalEnd(patch_set[1], j) > op.pre.len}
                    f == CHOOSE j \in short : \A i \in short : j <= i
                IN  /\ op.res = FileTooSmall(patch_set[1].patches[f].name,
                                             patch_set[1].patches[f].offset)
                    /\ (\A j \in 1..(k - 1) : OriginalEnd(patch_set[1], j) <= op.pre.len)
                           => f = k

\* An apply on a buffer cut just short of the Code window, failing on Jump.
C7_Witness ==
    /\ op.name = "apply"
    /\ TruncatedAt(op.pre, patch_set[1], 2)
    /\ op.res.tag = "FileTooSmall"
    /\ op.res.patch_name = "Jump"

\* The buffer is long enough to hold the version field.
HoldsVersionField(d) == d.len >= VERSION_STRING_OFFSET + VERSION_STRING_LENGTH

\* The cleaned identifier of a buffer that holds the version field.
CleanedOf(d) ==
    version_str_cleaned([k \in 1..VERSION_STRING_LENGTH |->
                            At(d, VERSION_STRING_OFFSET + k - 1)])

\* C8: detect_version returns FileTooSmall for every buffer shorter than
\* 0x70040+16 bytes; otherwise UnknownVersion when the cleaned string does
\* not start with "ca"; otherwise UnsupportedVersion carrying the cleaned
\* string when no catalog version string is a prefix of it; and never
\* InvalidUtf8.
C8_DetectErrorOrder ==
    op.name = "detect" =>
        /\ op.res.tag # "InvalidUtf8"
        /\ ~HoldsVersionField(op.pre) => op.res = VersionFileTooSmall
        /\ HoldsVersionField(op.pre) =>
               LET cleaned == CleanedOf(op.pre)
                   family == StartsWith(cleaned, <<99, 97>>)
                   known == \E ps \in Catalog : StartsWith(cleaned, ps.version_string)
               IN  /\ ~family => op.res = UnknownVersion
                   /\ (family /\ ~known) => op.res = UnsupportedVersion(cleaned)

\* A detection that ended with UnsupportedVersion("ca430038").
C8_Witness ==
    /\ op.name = "detect"
    /\ op.res.tag = "UnsupportedVersion"
    /\ op.res.found = [ca430037 EXCEPT ![8] = 56]

\* The buffer holds the version field with E's version string followed by
\* zero padding, and every window of E holds `original`.
Scenario(d, E) ==
    /\ HoldsVersionField(d)
    /\ \A k \in 1..VERSION_STRING_LENGTH :
           At(d, VERSION_STRING_OFFSET + k - 1) =
               IF k <= Len(E.version_string) THEN E.version_string[k] ELSE 0
    /\ AllWindows(d, E, "original")

\* C9: for every catalog entry E, on a buffer of E's scenario detect_version
\* returns a set with E's version string, check_patch_status with it returns
\* (Unpatched, Unpatched, Unpatched), and apply_patches with it returns Ok,
\* leaves E's windows holding `patched` and the status all Patched.
C9_DetectStatusApply ==
    \A E \in Catalog :
        /\ (op.name = "detect" /\ Scenario(op.pre, E)) =>
               /\ op.res.tag = "Ok"
               /\ op.res.value.version_string = E.version_string
        /\ (op.name = "status" /\ Scenario(op.pre, E)) =>
               op.res.value = AllStatus("Unpatched")
        /\ (op.name = "apply" /\ Scenario(op.pre, E)) =>
               /\ op.res.tag = "Ok"
               /\ AllWindows(data, E, "patched")
               /\ check_patch_status(data, patch_set[1]) = AllStatus("Patched")

\* The ca430037 scenario: detected, its status read, then applied.
C9_Witness ==
    /\ op.name = "apply"
    /\ op.prev = <<"status", "Status">>
    /\ Scenario(op.pre, get_all_patch_sets[1])
    /\ patch_set = <<get_all_patch_sets[1]>>
    /\ op.res.tag = "Ok"
    /\ check_patch_status(data, patch_set[1]) = AllStatus("Patched")

\* The positions of get_all_patch_sets whose version string is a prefix of
\* the cleaned identifier.
ListedMatches(cleaned) ==
    {i \in DOMAIN get_all_patch_sets :
        StartsWith(cleaned, get_all_patch_sets[i].version_string)}

\* C10 as stated: when catalog entries match the cleaned identifier,
\* detect_version returns the first of them in the order in which the
\* catalog lists its sets, the same entry on every run.
C10_Original ==
    (op.name = "detect" /\ HoldsVersionField(op.pre)
                        /\ ListedMatches(CleanedOf(op.pre)) # {}) =>
        LET hits == ListedMatches(CleanedOf(op.pre))
            first == CHOOSE i \in hits : \A j \in hits : i <= j
        IN  op.res = Ok(get_all_patch_sets[first])

\* C10 amended: detect_version returns the first matching entry in the
\* iteration order of PATCH_SETS_MAP, whatever that order is; the entry has
\* the version string of the first listed match, but need not be that entry.
C10_Amended ==
    (op.name = "detect" /\ HoldsVersionField(op.pre)
                        /\ ListedMatches(CleanedOf(op.pre)) # {}) =>
        LET cleaned == CleanedOf(op.pre)
            hits == ListedMatches(cleaned)
            first == CHOOSE i \in hits : \A j \in hits : i <= j
        IN  /\ op.res.tag = "Ok"
            /\ op.res.value.version_string = get_all_patch_sets[first].version_string
            /\ \E i \in DOMAIN map_order :
                   /\ op.res.value = PATCH_SETS_MAP[map_order[i]]
                   /\ StartsWith(cleaned, map_order[i][1])
                   /\ \A j \in 1..(i - 1) : ~StartsWith(cleaned, map_order[j][1])

\* A detection of an image tagged "ca430056" that returned the 5WK90017
\* entry, listed after the 5WK90015 entry.
C10_Witness ==
    /\ op.name = "detect"
    /\ CleanedOf(op.pre) = ca430056
    /\ op.res = Ok(get_all_patch_sets[3])

\* C11: for every catalog set and every buffer, apply_patches returns Ok
\* exactly when check_patch_status reports Unpatched for every modification,
\* and revert_patches returns Ok exactly when it reports Patched for every
\* modification.
C11_OkIffUniformStatus ==
    /\ op.name = "apply" =>
           (op.res.tag = "Ok"
                <=> check_patch_status(op.pre, patch_set[1]) = AllStatus("Unpatched"))
    /\ op.name = "revert" =>
           (op.res.tag = "Ok"
                <=> check_patch_status(op.pre, patch_set[1]) = AllStatus("Patched"))

\* A revert refused on a buffer whose status is mixed: the first two
\* modifications Patched, the last one not.
C11_Witness ==
    /\ op.name = "revert"
    /\ op.res.tag # "Ok"
    /\ LET st == check_patch_status(op.pre, patch_set[1])
       IN  st[1] = "Patched" /\ st[2] = "Patched" /\ st[3] # "Patched"

\* Some modification of ps has status Unknown in d.
SomeUnknown(d, ps) ==
    \E k \in 1..3 : check_patch_status(d, ps)[k] = "Unknown"

\* C12: while check_patch_status reports Unknown for a modification of the
\* set, every apply_patches and revert_patches call with that set fails,
\* leaves the buffer unchanged and leaves every status as it was; and the
\* only changes of status any call makes are all Unpatched to all Patched
\* by apply and all Patched to all Unpatched by revert.
C12_UnknownIsDeadEnd ==
    [][LET before == check_patch_status(data, patch_set[1])
           after == check_patch_status(data', patch_set'[1])
       IN  /\ SomeUnknown(data, patch_set[1]) =>
                  /\ op'.res.tag \in {"FileTooSmall", "ValidationMismatch", "Status"}
                  /\ data' = data
                  /\ after = before
           /\ after # before =>
                  \/ /\ op'.name = "apply"
                     /\ before = AllStatus("Unpatched")
                     /\ after = AllStatus("Patched")
                  \/ /\ op'.name = "revert"
                     /\ before = AllStatus("Patched")
                     /\ after = AllStatus("Unpatched")]_vars

\* A revert refused right after a refused apply, on a buffer in which a
\* modification is Unknown.
C12_Witness ==
    /\ op.name = "revert"
    /\ op.prev = <<"apply", "ValidationMismatch">>
    /\ op.res.tag = "ValidationMismatch"
    /\ SomeUnknown(data, patch_set[1])
    /\ data = op.pre

\* The error the check of modification `patch` against its reference `ref`
\* gives on buffer d: the length check first, then the content check.
CheckError(d, patch, ref) ==
    IF d.len < patch.offset + Len(ref)
    THEN FileTooSmall(patch.name, patch.offset)
    ELSE ValidationMismatch(patch.offset, ref,
                            [i \in 1..Len(ref) |-> At(d, patch.offset + i - 1)])

\* The error of the first modification of ps, in set order, whose window in
\* d does not hold its reference `which`.
FirstFailure(d, ps, which) ==
    LET failing == {k \in DOMAIN ps.patches :
                       ~WindowIs(d, ps.patches[k], Reference(ps.patches[k], which))}
        f == CHOOSE k \in failing : \A j \in failing : k <= j
    IN  CheckError(d, ps.patches[f], Reference(ps.patches[f], which))

\* C16: the error apply_patches (resp. revert_patches) returns is the one of
\* the first modification, in set order, that fails its check against
\* original (resp. patched), FileTooSmall taking precedence over
\* ValidationMismatch for that modification.
C16_FailFastInSetOrder ==
    /\ (op.name = "apply" /\ op.res.tag # "Ok") =>
           op.res = FirstFailure(op.pre, patch_set[1], "original")
    /\ (op.name = "revert" /\ op.res.tag # "Ok") =>
           op.res = FirstFailure(op.pre, patch_set[1], "patched")

\* An apply that reported the mismatch of Code although the buffer is also
\* too short for DTC, which would fail with FileTooSmall.
C16_Witness ==
    /\ op.name = "apply"
    /\ op.res.tag = "ValidationMismatch"
    /\ op.res.offset = patch_set[1].patches[2].offset
    /\ op.pre.len < patch_set[1].patches[3].offset + Len(patch_set[1].patches[3].original)

\* C13 as stated: whenever apply_patches or revert_patches returns an
\* error, for any patch set the data model allows, the buffer is as it was
\* before the call.  The code does not have this property: validation
\* measures the windows with one reference and the write loop with the
\* other, so the write loop's length check can fail after earlier windows
\* were overwritten.
C13_ErrorLeavesBufferUntouched ==
    (op.name \in {"apply", "revert"} /\ op.res.tag # "Ok") => data = op.pre

\* The status get_patch_status is to give: `patched` is compared first,
\* each comparison only when the buffer covers the window.
StatusInOrder(d, patch) ==
    IF WindowIs(d, patch, patch.patched) THEN "Patched"
    ELSE IF WindowIs(d, patch, patch.original) THEN "Unpatched"
    ELSE "Unknown"

\* C14: each slot of check_patch_status is Patched when the buffer covers
\* offset+len(patched) and holds `patched` there, otherwise Unpatched when
\* it covers offset+len(original) and holds `original`, otherwise Unknown;
\* a window matching both references is Patched, and a buffer too short for
\* both windows gives Unknown, never a read past its end.
C14_StatusInStrictOrder ==
    op.name = "status" =>
        \A k \in DOMAIN patch_set[1].patches :
            LET patch == patch_set[1].patches[k]
                s == op.res.value[k]
            IN  /\ s \in PatchStatus
                /\ s = StatusInOrder(op.pre, patch)
                /\ (WindowIs(op.pre, patch, patch.patched)
                        /\ WindowIs(op.pre, patch, patch.original)) => s = "Patched"
                /\ (op.pre.len < patch.offset + Len(patch.patched)
                        /\ op.pre.len < patch.offset + Len(patch.original)) => s = "Unknown"
                /\ Slice(op.pre, patch.offset, patch.offset + Len(patch.patched)) = OutOfBounds
                       => s # "Patched"

\* A status call on a buffer whose Code window matches both references, of
\* different lengths, and is reported Patched, and whose DTC window lies
\* past the end of the buffer and is reported Unknown.
C14_Witness ==
    /\ op.name = "status"
    /\ LET code == patch_set[1].patches[2]
           dtc == patch_set[1].patches[3]
       IN  /\ Len(code.original) # Len(code.patched)
           /\ WindowIs(op.pre, code, code.original)
           /\ WindowIs(op.pre, code, code.patched)
           /\ op.res.value[2] = "Patched"
           /\ op.pre.len <= dtc.offset
           /\ op.res.value[3] = "Unknown"

\* The 16 bytes of the version field of a buffer that holds it.
VersionField(d) ==
    [k \in 1..VERSION_STRING_LENGTH |-> At(d, VERSION_STRING_OFFSET + k - 1)]

\* The bytes of `field` in [0x20, 0x7e] that occur before its first zero
\* byte, in order.
PrintableBeforeZero(field) ==
    LET zeros == {k \in DOMAIN field : field[k] = 0}
        stop == IF zeros = {} THEN Len(field) + 1
                ELSE CHOOSE k \in zeros : \A j \in zeros : k <= j
        IsPrintable(b) == b >= 32 /\ b <= 126
    IN  SelectSeq(SubSeq(field, 1, stop - 1), IsPrintable)

\* C15: the cleaned identifier detect_version works with is the sequence of
\* the bytes in [0x20, 0x7e] before the first zero byte of the 16-byte field
\* at 0x70040: it is what UnsupportedVersion carries, what the "ca" test and
\* the catalog lookup see; a field "c", 0x01, "a430037" followed by zeros
\* cleans to "ca430037" and is detected as ca430037.
C15_CleanedIdentifier ==
    (op.name = "detect" /\ HoldsVersionField(op.pre)) =>
        LET field == VersionField(op.pre)
            cleaned == PrintableBeforeZero(field)
        IN  /\ version_str_cleaned(field) = cleaned
            /\ op.res.tag = "UnknownVersion" <=> ~StartsWith(cleaned, <<99, 97>>)
            /\ op.res.tag = "UnsupportedVersion" => op.res.found = cleaned
            /\ op.res.tag = "Ok" => StartsWith(cleaned, op.res.value.version_string)
            /\ (SubSeq(field, 1, 10) = <<99, 1>> \o Tail(ca430037) \o <<0>>) =>
                   /\ cleaned = ca430037
                   /\ op.res.tag = "Ok"
                   /\ op.res.value.version_string = ca430037

\* A detection of the field "c", 0x01, "a430037", 0, ... that returned the
\* ca430037 set.
C15_Witness ==
    /\ op.name = "detect"
    /\ HoldsVersionField(op.pre)
    /\ SubSeq(VersionField(op.pre), 1, 10) = <<99, 1>> \o Tail(ca430037) \o <<0>>
    /\ op.res = Ok(get_all_patch_sets[1])

\* A detection of a field cut by a zero byte after "ca", with printable
\* bytes after the zero, that reported UnsupportedVersion("ca").
C15_WitnessTruncated ==
    /\ op.name = "detect"
    /\ HoldsVersionField(op.pre)
    /\ SubSeq(VersionField(op.pre), 1, 4) = <<99, 97, 0, 52>>
    /\ op.res = UnsupportedVersion(<<99, 97>>)

\* Catalog entries A and B can both match one cleaned identifier: both
\* version strings are prefixes of it, so one is a prefix of the other.
CanMatchSameIdentifier(A, B) ==
    \/ StartsWith(A.version_string, B.version_string)
    \/ StartsWith(B.version_string, A.version_string)

\* C18: catalog entries whose version strings can be prefixes of the same
\* cleaned identifier list the same modifications, so check_patch_status,
\* apply_patches and revert_patches give, on the image at hand, the same
\* results with the detected entry as with any other entry detection could
\* have returned.
C18_VariantCannotChangePatch ==
    /\ \A A, B \in Catalog :
           CanMatchSameIdentifier(A, B) => A.patches = B.patches
    /\ patch_set # NoSet =>
           \A M \in Catalog :
               CanMatchSameIdentifier(M, patch_set[1]) =>
                   /\ check_patch_status(data, M) = check_patch_status(data, patch_set[1])
                   /\ apply_patches(data, M) = apply_patches(data, patch_set[1])
                   /\ revert_patches(data, M) = revert_patches(data, patch_set[1])
                   /\ op.name = "apply" =>
                          apply_patches(op.pre, M) = [res |-> op.res, data |-> data]
                   /\ op.name = "revert" =>
                          revert_patches(op.pre, M) = [res |-> op.res, data |-> data]
                   /\ op.name = "status" =>
                          check_patch_status(op.pre, M) = op.res.value

\* An image tagged "ca430056" for which detection returned the 5WK90017
\* entry and that was then patched with it.
C18_Witness ==
    /\ op.name = "apply"
    /\ op.res.tag = "Ok"
    /\ op.prev[1] = "detect"
    /\ patch_set = <<get_all_patch_sets[3]>>
    /\ patch_set[1].hardware_variant = <<"5WK90017">>
    /\ apply_patches(op.pre, get_all_patch_sets[2]) = [res |-> op.res, data |-> data]

\* C17 as stated: whenever a file is loaded the displayed status is the
\* status of the buffer in memory, and no click on an enabled Apply or
\* Revert button ends in an engine error.  The code does not have this
\* property: the handlers patch the buffer in place before the save dialog
\* and set the status only after a successful write.
C17_StatusMatchesBuffer ==
    /\ app_state.file_data # None =>
           app_state.patch_status =
               check_patch_status(app_state.file_data[1], app_state.patch_set[1])
    /\ op.name \in {"apply", "revert"} => op.res.tag = "Ok"

\* The second half of C17 alone.
C17_EnabledButtonNeverFails ==
    op.name \in {"apply", "revert"} => op.res.tag = "Ok"

\* C19: file_data and patch_set are both present or both absent; when they
\* are absent the status is (Unknown, Unknown, Unknown), Apply and Revert are
\* disabled, and the next step patches no buffer.
C19_DataAndSetTogether ==
    /\ app_state.file_data = None <=> app_state.patch_set = None
    /\ app_state.file_data = None =>
           /\ app_state.patch_status = <<"Unknown", "Unknown", "Unknown">>
           /\ ~can_apply(app_state)
           /\ ~can_revert(app_state)
           /\ ~ENABLED ApplyClick
           /\ ~ENABLED RevertClick

\* A file was loaded and patched, and then a Browse failed: nothing of the
\* previous file is left.
C19_Witness ==
    /\ op.name = "browse"
    /\ op.res.tag \in {"ReadError", "FileTooSmall", "UnknownVersion", "UnsupportedVersion"}
    /\ op.prev = <<"apply", "Ok">>
    /\ app_state.file_data = None
    /\ app_state.patch_set = None

====
